---- MODULE Spec2Model ----
(***************************************************************************)
(* Coaching decision engine of M4rtinR/coachingPolicies.                   *)
(*                                                                         *)
(*   src/Policy/policy_wrapper.py       PolicyWrapper (get_behaviour,      *)
(*                                      _get_valid_list, get_observation)  *)
(*   src/CoachingBehaviourTree/nodes.py the behaviour-tree leaf nodes      *)
(*                                                                         *)
(* Behaviours are written as strings carrying the name of the constant the *)
(* source uses (config.A_SILENCE is "A_SILENCE").  nodes.py addresses the  *)
(* goal levels, phases and performance levels through PolicyWrapper and    *)
(* the behaviours through Policy; both stand for the values listed in      *)
(* policy_wrapper.py, lines 36-50.                                         *)
(*                                                                         *)
(* The underlying policy (Policy.sample_action, Policy.sample_observation) *)
(* is a stochastic oracle: every call is a nondeterministic choice.        *)
(***************************************************************************)
EXTENDS Integers, Sequences, FiniteSets, TLC

\* ------------------------------------------------------------------------
\* Goal levels, phases, performance levels (policy_wrapper.py, lines 36-50)
\* ------------------------------------------------------------------------
PERSON_GOAL == 0
SESSION_GOAL == 1
EXERCISE_GOAL == 2
SET_GOAL == 3
ACTION_GOAL == 4

PHASE_START == 0
PHASE_END == 1

GOOD == 0
FAST == 1
SLOW == 2

\* Bounds of the model.
MaxPerformance == 3
MaxState == 1
\* Call counters saturate: a counter at its cap reads "cap or more".
CallCap == 13
ObsCap == 1
\* GetBehaviour is not started once controller.used_behaviours is this long.
MaxUsed == 2

GoalLevels == PERSON_GOAL..ACTION_GOAL
Phases == {PHASE_START, PHASE_END}
\* -1 is the performance InitialiseBlackboard deposits before any data exists.
Performances == (0 - 1)..MaxPerformance
\* Latent states of the policy (indices into its transition matrix).
States == 0..MaxState

\* ------------------------------------------------------------------------
\* Behaviour catalog: every behaviour constant the two source files name.
\* ------------------------------------------------------------------------
Behaviours ==
  { "A_START", "A_END", "A_SILENCE", "A_FIRSTNAME", "A_HUSTLE", "A_HUSTLE_FIRSTNAME",
    "A_PREINSTRUCTION", "A_PREINSTRUCTION_QUESTIONING", "A_PREINSTRUCTION_FIRSTNAME",
    "A_PREINSTRUCTION_POSITIVEMODELING", "A_PREINSTRUCTION_NEGATIVEMODELING",
    "A_PREINSTRUCTION_PRAISE", "A_PREINSTRUCTION_MANUALMANIPULATION",
    "A_POSITIVEMODELING_PREINSTRUCTION",
    "A_POSTINSTRUCTIONPOSITIVE", "A_POSTINSTRUCTIONNEGATIVE",
    "A_POSTINSTRUCTIONPOSITIVE_QUESTIONING", "A_POSTINSTRUCTIONPOSITIVE_FIRSTNAME",
    "A_POSTINSTRUCTIONNEGATIVE_QUESTIONING", "A_POSTINSTRUCTIONNEGATIVE_FIRSTNAME",
    "A_POSTINSTRUCTIONPOSITIVE_POSITIVE_MODELING",
    "A_POSTINSTRUCTIONPOSITIVE_NEGATIVE_MODELING",
    "A_POSTINSTRUCTIONNEGATIVE_POSITIVEMODELING",
    "A_POSTINSTRUCTIONNEGATIVE_NEGATIVEMODELING",
    "A_POSTINSTRUCTIONPOSITIVE_MANUALMANIPULATION",
    "A_POSTINSTRUCTIONNEGATIVE_MANUALMANIPULATION",
    "A_POSITIVEMODELING_POSTINSTRUCTIONPOSITIVE",
    "A_NEGATIVEMODELING_POSTINSTRUCTIONNEGATIVE",
    "A_QUESTIONING", "A_QUESTIONING_FIRSTNAME", "A_QUESTIONING_POSITIVEMODELING",
    "A_QUESTIONING_NEGATIVEMODELING", "A_POSITIVEMODELING_QUESTIONING",
    "A_POSITIVEMODELING", "A_NEGATIVEMODELING", "A_POSITIVEMODELING_PRAISE",
    "A_POSITIVEMODELING_HUSTLE", "A_POSITIVEMODELING_CONCURRENTINSTRUCTIONPOSITIVE",
    "A_PRAISE", "A_PRAISE_FIRSTNAME",
    "A_SCOLD", "A_SCOLD_FIRSTNAME", "A_SCOLD_POSITIVEMODELING",
    "A_CONSOLE", "A_CONSOLE_FIRSTNAME",
    "A_CONCURRENTINSTRUCTIONPOSITIVE", "A_CONCURRENTINSTRUCTIONPOSITIVE_QUESTIONING",
    "A_CONCURRENTINSTRUCTIONPOSITIVE_FIRSTNAME",
    "A_CONCURRENTINSTRUCTIONPOSITIVE_POSITIVEMODELING",
    "A_CONCURRENTINSTRUCTIONPOSITIVE_PRAISE",
    "A_CONCURRENTINSTRUCTIONPOSITIVE_MANUALMANIPULATION",
    "A_CONCURRENTINSTRUCTIONNEGATIVE", "A_CONCURRENTINSTRUCTIONNEGATIVE_FIRSTNAME",
    "A_CONCURRENTINSTRUCTIONNEGATIVE_NEGATIVEMODELING",
    "A_CONCURRENTINSTRUCTIONNEGATIVE_MANUALMANIPULATION",
    "A_MANUALMANIPULATION_QUESTIONING", "A_MANUALMANIPULATION_PREINSTRUCTION",
    "A_MANUALMANIPULATION_POSITIVEMODELING",
    "A_MANUALMANIPULATION_CONCURRENTINSTRUCTIONNEGATIVE",
    "A_MANUALMANIPULATION_CONCURRENTINSTRUCTIONPOSITIVE",
    "A_MANUALMANIPULATION_CONSOLE", "A_MANUALMANIPULATION_FIRSTNAME",
    "A_MANUALMANIPULATION_HUSTLE", "A_MANUALMANIPULATION_POSTINSTRUCTIONNEGATIVE",
    "A_MANUALMANIPULATION_POSTINSTRUCTIONPOSITIVE", "A_MANUALMANIPULATION_PRAISE" }

\* ------------------------------------------------------------------------
\* PolicyWrapper._get_valid_list (policy_wrapper.py, lines 127-208).
\* The source builds a list; only membership is ever asked of it, so the
\* model keeps the set of its elements.
\* ------------------------------------------------------------------------
\* A variant of the person goal's list with the two phases exchanged.
PersonValidSwapped(phase) ==
  IF phase = PHASE_START
    THEN {"A_END"}
    ELSE {"A_PREINSTRUCTION", "A_PREINSTRUCTION_FIRSTNAME"}

PersonValid(phase) ==
  IF phase = PHASE_START
    THEN {"A_PREINSTRUCTION", "A_PREINSTRUCTION_FIRSTNAME"}
    ELSE {"A_END"}

FeedbackBase ==
  { "A_POSTINSTRUCTIONPOSITIVE", "A_POSTINSTRUCTIONNEGATIVE",
    "A_QUESTIONING", "A_POSTINSTRUCTIONPOSITIVE_QUESTIONING",
    "A_POSTINSTRUCTIONPOSITIVE_FIRSTNAME",
    "A_POSTINSTRUCTIONNEGATIVE_QUESTIONING", "A_QUESTIONING_FIRSTNAME",
    "A_POSTINSTRUCTIONNEGATIVE_FIRSTNAME",
    "A_QUESTIONING_POSITIVEMODELING", "A_POSITIVEMODELING_QUESTIONING",
    "A_POSTINSTRUCTIONPOSITIVE_POSITIVE_MODELING",
    "A_POSTINSTRUCTIONPOSITIVE_NEGATIVE_MODELING",
    "A_POSTINSTRUCTIONNEGATIVE_POSITIVEMODELING",
    "A_POSTINSTRUCTIONNEGATIVE_NEGATIVEMODELING",
    "A_QUESTIONING_NEGATIVEMODELING",
    "A_POSITIVEMODELING_POSTINSTRUCTIONPOSITIVE",
    "A_NEGATIVEMODELING_POSTINSTRUCTIONNEGATIVE" }

PreInstructionVariants ==
  { "A_PREINSTRUCTION", "A_PREINSTRUCTION_QUESTIONING", "A_PREINSTRUCTION_FIRSTNAME",
    "A_PREINSTRUCTION_POSITIVEMODELING", "A_PREINSTRUCTION_NEGATIVEMODELING",
    "A_POSITIVEMODELING_PREINSTRUCTION" }

\* A variant that praises whenever the performance is not slow or fast.
FeedbackByPerformancePraiseElse(performance) ==
  IF performance = SLOW \/ performance = FAST
    THEN {"A_SCOLD", "A_CONSOLE", "A_SCOLD_FIRSTNAME", "A_CONSOLE_FIRSTNAME"}
    ELSE {"A_PRAISE", "A_PRAISE_FIRSTNAME", "A_POSITIVEMODELING_PRAISE"}

\* lines 169-174, 178-183: the additions for the performance
FeedbackByPerformance(performance) ==
  IF performance = GOOD
    THEN {"A_PRAISE", "A_PRAISE_FIRSTNAME", "A_POSITIVEMODELING_PRAISE"}
    ELSE IF performance = SLOW \/ performance = FAST
      THEN {"A_SCOLD", "A_CONSOLE", "A_SCOLD_FIRSTNAME", "A_CONSOLE_FIRSTNAME"}
      ELSE {}

\* A variant that offers at the feedback levels what the performance adds
\* and nothing else.
FeedbackValidByRating(goal_level, performance, phase) ==
  FeedbackByPerformance(performance)

\* A variant that offers the pre-instruction variants in both phases.
FeedbackValidPreInstructionAlways(goal_level, performance, phase) ==
  FeedbackBase \cup PreInstructionVariants \cup
    (IF phase = PHASE_START
       THEN FeedbackByPerformance(performance)
       ELSE (IF goal_level = SESSION_GOAL THEN {"A_END"} ELSE {})
              \cup FeedbackByPerformance(performance))

\* A variant that lets every feedback level end with the end marker.
FeedbackValidEndAnyLevel(goal_level, performance, phase) ==
  FeedbackBase \cup
    (IF phase = PHASE_START
       THEN PreInstructionVariants \cup FeedbackByPerformance(performance)
       ELSE {"A_END"} \cup FeedbackByPerformance(performance))

FeedbackValid(goal_level, performance, phase) ==
  FeedbackBase \cup
    (IF phase = PHASE_START
       THEN PreInstructionVariants \cup FeedbackByPerformance(performance)
       ELSE (IF goal_level = SESSION_GOAL THEN {"A_END"} ELSE {})
              \cup FeedbackByPerformance(performance))

ActionBase ==
  { "A_SILENCE", "A_CONCURRENTINSTRUCTIONPOSITIVE",
    "A_QUESTIONING", "A_POSITIVEMODELING", "A_HUSTLE",
    "A_CONCURRENTINSTRUCTIONPOSITIVE_QUESTIONING",
    "A_CONCURRENTINSTRUCTIONPOSITIVE_FIRSTNAME",
    "A_QUESTIONING_FIRSTNAME", "A_HUSTLE_FIRSTNAME",
    "A_CONCURRENTINSTRUCTIONPOSITIVE_POSITIVEMODELING",
    "A_POSITIVEMODELING_HUSTLE",
    "A_POSITIVEMODELING_CONCURRENTINSTRUCTIONPOSITIVE" }

ActionByPerformance(performance) ==
  IF performance = GOOD
    THEN { "A_PRAISE", "A_PRAISE_FIRSTNAME",
           "A_CONCURRENTINSTRUCTIONPOSITIVE_PRAISE", "A_POSITIVEMODELING_PRAISE" }
    ELSE IF performance = SLOW \/ performance = FAST
      THEN { "A_CONCURRENTINSTRUCTIONNEGATIVE", "A_NEGATIVEMODELING",
             "A_SCOLD", "A_CONSOLE",
             "A_QUESTIONING_NEGATIVEMODELING", "A_SCOLD_POSITIVEMODELING",
             "A_SCOLD_FIRSTNAME", "A_CONSOLE_FIRSTNAME",
             "A_CONCURRENTINSTRUCTIONNEGATIVE_NEGATIVEMODELING",
             "A_CONCURRENTINSTRUCTIONNEGATIVE_FIRSTNAME" }
      ELSE {}

\* A variant that rates only the three named performance levels.
ActionValidRatedOnly(performance) ==
  IF performance \in {GOOD, FAST, SLOW}
    THEN ActionBase \cup ActionByPerformance(performance)
    ELSE {}

\* lines 186-206: the action goal (and any level that is none of the others)
ActionValid(performance) == ActionBase \cup ActionByPerformance(performance)

\* A variant whose action list follows the phase as the other lists do.
get_valid_list_by_phase(goal_level, performance, phase) ==
  IF goal_level = PERSON_GOAL
    THEN PersonValid(phase)
    ELSE IF goal_level = SESSION_GOAL \/ goal_level = EXERCISE_GOAL
              \/ goal_level = SET_GOAL
      THEN FeedbackValid(goal_level, performance, phase)
      ELSE IF phase = PHASE_START
        THEN ActionValid(performance)
        ELSE ActionBase

_get_valid_list(goal_level, performance, phase) ==
  IF goal_level = PERSON_GOAL
    THEN PersonValid(phase)
    ELSE IF goal_level = SESSION_GOAL \/ goal_level = EXERCISE_GOAL
              \/ goal_level = SET_GOAL
      THEN FeedbackValid(goal_level, performance, phase)
      ELSE ActionValid(performance)

\* ------------------------------------------------------------------------
\* State
\* ------------------------------------------------------------------------
VARIABLES
  pc,                  \* position inside PolicyWrapper.get_behaviour
  goal_level,          \* get_behaviour's arguments
  performance,
  phase,
  state,               \* get_behaviour's local state (rebound at line 118)
  behaviour,           \* get_behaviour's local behaviour / its return value
  count,               \* get_behaviour's retry counter
  valid_behaviours,    \* get_behaviour's local valid_behaviours (line 65)
  n_sample_action,     \* calls of policy.sample_action made by this call
  n_sample_observation, \* calls of policy.sample_observation made by this call
  policy,              \* PolicyWrapper.policy: which policy the wrapper queries
  subtree,             \* the branch of the tree a run ticks: the decision step or the goal nodes
  self_state,          \* GetBehaviour.state, read at configure
  nd_behaviour,        \* nodedata.behaviour
  nd_obs_behaviour,    \* nodedata.obs_behaviour
  nd_observation,      \* nodedata.observation
  nd_previous_phase,   \* nodedata.previous_phase
  observation_state,   \* the state this GetBehaviour.run handed to get_observation
  used_behaviours,     \* controller.used_behaviours
  prev_behav,          \* controller.prev_behav
  check_behaviour,     \* CheckForBehaviour.check_behaviour, read at configure
  node,                \* the node whose run callback ended last
  status,              \* the NodeStatus it returned
  c_goal_level,        \* controller.goal_level
  c_phase,             \* controller.phase
  c_completed,         \* controller.completed
  c_set_count,         \* controller.set_count
  c_session_time,      \* controller.session_time
  c_exercise_count,    \* controller.exercise_count
  c_performance,       \* controller.performance
  c_score,             \* controller.score
  c_target,            \* controller.target
  session_performance_list,   \* controller.session_performance_list
  exercise_performance_list,  \* controller.exercise_performance_list
  set_performance_list,       \* controller.set_performance_list
  exercise_score_list,        \* controller.exercise_score_list
  set_score_list,             \* controller.set_score_list
  nd_new_goal,         \* nodedata.new_goal
  nd_phase,            \* nodedata.phase
  nd_performance,      \* nodedata.performance
  nd_score,            \* nodedata.score
  nd_target,           \* nodedata.target
  nd_person,           \* nodedata.sessions, user_impairment and name
  expecting_action_goal,  \* api_classes.expecting_action_goal
  nd_start_time,       \* nodedata.start_time
  nd_session_duration, \* nodedata.session_duration
  c_given_score,       \* controller.given_score
  nd_action,           \* nodedata.action: << >> or one Action
  nd_belief,           \* nodedata.belief
  nd_state             \* nodedata.state as InitialiseBlackboard deposits it

wvars == << pc, goal_level, performance, phase, state, behaviour, count,
            valid_behaviours, n_sample_action, n_sample_observation >>

\* what GetBehaviour and CheckForBehaviour read and write besides
dvars == << self_state, nd_behaviour, nd_obs_behaviour, nd_observation,
            nd_previous_phase, used_behaviours, prev_behav, check_behaviour,
            node, status,
            observation_state >>

\* the accumulators of the controller
lvars == << session_performance_list, exercise_performance_list,
            set_performance_list, exercise_score_list, set_score_list >>

\* what EndSetEvent and DurationCheck read and write besides
evars == << expecting_action_goal, nd_start_time, nd_session_duration >>

\* what the nodes of the interaction state machine read and write besides
mvars == << c_goal_level, c_phase, c_completed, c_set_count, c_session_time,
            c_exercise_count, c_performance, c_score, c_target, lvars,
            nd_new_goal, nd_phase, nd_performance, nd_score, nd_target,
            nd_person, evars >>

\* what no node writes
pvars == << policy, subtree >>

\* what FormatAction and InitialiseBlackboard write besides
avars == << c_given_score, nd_action, nd_belief, nd_state >>

vars == << wvars, pvars, dvars, mvars, avars >>

Bump(n, cap) == IF n < cap THEN n + 1 ELSE n

\* ------------------------------------------------------------------------
\* The policy behind the wrapper (Policy.sample_action, policy_wrapper.py
\* lines 69, 84, 119).  The policy "any" may answer with every behaviour of
\* the catalog; the policy "core" answers with a few: one that is valid in
\* both feedback phases, the canonical pre-instruction, one compound of the
\* canonicalization table and silence.
\* ------------------------------------------------------------------------
CoreBehaviours ==
  { "A_QUESTIONING", "A_PREINSTRUCTION", "A_MANUALMANIPULATION_PREINSTRUCTION",
    "A_SILENCE" }

Emits(p) == IF p = "any" THEN Behaviours ELSE CoreBehaviours

\* ------------------------------------------------------------------------
\* PolicyWrapper.get_behaviour (policy_wrapper.py, lines 52-125)
\* ------------------------------------------------------------------------
\* line 82: the retry counter is compared with 10
RetryLimit == 10

\* A variant of the loop test that runs the loop body at least once.
NotValidOrUntried(b, valid) == b \notin valid \/ count = 0

\* A variant of the loop test that lets silence through at every level.
NotValidUnlessSilence(b, valid) == b \notin valid /\ b # "A_SILENCE"

\* line 76: the loop runs while the behaviour is not in the valid list
NotValid(b, valid) == b \notin valid

\* A variant of the bypass test that names the wrong phase.
BypassAtStart(g, ph) == g = PERSON_GOAL /\ ph = PHASE_START

\* line 66: the person goal in its end phase bypasses the sampler
Bypass(g, ph) == g = PERSON_GOAL /\ ph = PHASE_END

\* A variant of the table that turns one compound into another compound.
CanonicalTableChained ==
  [ A_MANUALMANIPULATION_QUESTIONING |-> "A_QUESTIONING",
    A_MANUALMANIPULATION_PREINSTRUCTION |->
      "A_PREINSTRUCTION_MANUALMANIPULATION",
    A_PREINSTRUCTION_MANUALMANIPULATION |-> "A_PREINSTRUCTION",
    A_MANUALMANIPULATION_POSITIVEMODELING |-> "A_POSITIVEMODELING",
    A_MANUALMANIPULATION_CONCURRENTINSTRUCTIONNEGATIVE |-> "A_CONCURRENTINSTRUCTIONNEGATIVE",
    A_CONCURRENTINSTRUCTIONNEGATIVE_MANUALMANIPULATION |-> "A_CONCURRENTINSTRUCTIONNEGATIVE",
    A_MANUALMANIPULATION_CONCURRENTINSTRUCTIONPOSITIVE |-> "A_CONCURRENTINSTRUCTIONPOSITIVE",
    A_CONCURRENTINSTRUCTIONPOSITIVE_MANUALMANIPULATION |-> "A_CONCURRENTINSTRUCTIONPOSITIVE",
    A_MANUALMANIPULATION_CONSOLE |-> "A_CONSOLE",
    A_MANUALMANIPULATION_FIRSTNAME |-> "A_FIRSTNAME",
    A_MANUALMANIPULATION_HUSTLE |-> "A_HUSTLE",
    A_MANUALMANIPULATION_POSTINSTRUCTIONNEGATIVE |-> "A_POSTINSTRUCTIONNEGATIVE",
    A_POSTINSTRUCTIONNEGATIVE_MANUALMANIPULATION |-> "A_POSTINSTRUCTIONNEGATIVE",
    A_MANUALMANIPULATION_POSTINSTRUCTIONPOSITIVE |-> "A_POSTINSTRUCTIONPOSITIVE",
    A_POSTINSTRUCTIONPOSITIVE_MANUALMANIPULATION |-> "A_POSTINSTRUCTIONPOSITIVE",
    A_MANUALMANIPULATION_PRAISE |-> "A_PRAISE" ]

\* lines 88-114: the manual-manipulation compounds and their base behaviours
CanonicalTable ==
  [ A_MANUALMANIPULATION_QUESTIONING |-> "A_QUESTIONING",
    A_MANUALMANIPULATION_PREINSTRUCTION |-> "A_PREINSTRUCTION",
    A_PREINSTRUCTION_MANUALMANIPULATION |-> "A_PREINSTRUCTION",
    A_MANUALMANIPULATION_POSITIVEMODELING |-> "A_POSITIVEMODELING",
    A_MANUALMANIPULATION_CONCURRENTINSTRUCTIONNEGATIVE |-> "A_CONCURRENTINSTRUCTIONNEGATIVE",
    A_CONCURRENTINSTRUCTIONNEGATIVE_MANUALMANIPULATION |-> "A_CONCURRENTINSTRUCTIONNEGATIVE",
    A_MANUALMANIPULATION_CONCURRENTINSTRUCTIONPOSITIVE |-> "A_CONCURRENTINSTRUCTIONPOSITIVE",
    A_CONCURRENTINSTRUCTIONPOSITIVE_MANUALMANIPULATION |-> "A_CONCURRENTINSTRUCTIONPOSITIVE",
    A_MANUALMANIPULATION_CONSOLE |-> "A_CONSOLE",
    A_MANUALMANIPULATION_FIRSTNAME |-> "A_FIRSTNAME",
    A_MANUALMANIPULATION_HUSTLE |-> "A_HUSTLE",
    A_MANUALMANIPULATION_POSTINSTRUCTIONNEGATIVE |-> "A_POSTINSTRUCTIONNEGATIVE",
    A_POSTINSTRUCTIONNEGATIVE_MANUALMANIPULATION |-> "A_POSTINSTRUCTIONNEGATIVE",
    A_MANUALMANIPULATION_POSTINSTRUCTIONPOSITIVE |-> "A_POSTINSTRUCTIONPOSITIVE",
    A_POSTINSTRUCTIONPOSITIVE_MANUALMANIPULATION |-> "A_POSTINSTRUCTIONPOSITIVE",
    A_MANUALMANIPULATION_PRAISE |-> "A_PRAISE" ]

InTable(b) == b \in DOMAIN CanonicalTable

\* lines 65-71: the valid list, the first behaviour, the counter.
\* The sampler is asked for the first behaviour unless the goal is the
\* person goal in its end phase.
get_behaviour_call(s, g, perf, ph) ==
  /\ pc = "idle"
  /\ pc' = "resolve"
  /\ goal_level' = g /\ performance' = perf /\ phase' = ph /\ state' = s
  /\ valid_behaviours' = _get_valid_list(g, perf, ph)
  /\ IF Bypass(g, ph)
       THEN /\ behaviour' = "A_END"
            /\ n_sample_action' = 0
       ELSE /\ behaviour' \in Emits(policy)
            /\ n_sample_action' = 1
  /\ n_sample_observation' = 0
  /\ count' = 0
  /\ UNCHANGED << pvars, avars >>

\* A variant of the action-goal branch that asks the sampler again.
ResolveSilenceBySampling ==
  /\ pc = "resolve"
  /\ NotValid(behaviour, valid_behaviours)
  /\ goal_level = ACTION_GOAL
  /\ behaviour' \in Emits(policy)
  /\ n_sample_action' = Bump(n_sample_action, CallCap)
  /\ UNCHANGED << pc, goal_level, performance, phase, state, count,
                  valid_behaviours, n_sample_observation >>
  /\ UNCHANGED << pvars, avars, dvars, mvars >>

\* lines 76-80: between shots an invalid proposal becomes silence
ResolveSilence ==
  /\ pc = "resolve"
  /\ NotValid(behaviour, valid_behaviours)
  /\ goal_level = ACTION_GOAL
  /\ behaviour' = "A_SILENCE"
  /\ UNCHANGED << pc, goal_level, performance, phase, state, count,
                  valid_behaviours, n_sample_action, n_sample_observation >>
  /\ UNCHANGED << pvars, avars, dvars, mvars >>

\* lines 82-84, 121: sample again while the counter is at most RetryLimit
ResolveResample ==
  /\ pc = "resolve"
  /\ NotValid(behaviour, valid_behaviours)
  /\ goal_level # ACTION_GOAL
  /\ count <= RetryLimit
  /\ behaviour' \in Emits(policy)
  /\ n_sample_action' = Bump(n_sample_action, CallCap)
  /\ count' = count + 1
  /\ UNCHANGED << pc, goal_level, performance, phase, state,
                  valid_behaviours, n_sample_observation >>
  /\ UNCHANGED << pvars, avars, dvars, mvars >>

\* A variant of the canonicalization that starts the counter again.
ResolveCanonicalResetting ==
  /\ pc = "resolve"
  /\ NotValid(behaviour, valid_behaviours)
  /\ goal_level # ACTION_GOAL
  /\ count > RetryLimit
  /\ InTable(behaviour)
  /\ behaviour' = CanonicalTable[behaviour]
  /\ count' = 0 + 1
  /\ UNCHANGED << pc, goal_level, performance, phase, state,
                  valid_behaviours, n_sample_action, n_sample_observation >>
  /\ UNCHANGED << pvars, avars, dvars, mvars >>

\* lines 85-114, 121: a manual-manipulation compound becomes its base
ResolveCanonical ==
  /\ pc = "resolve"
  /\ NotValid(behaviour, valid_behaviours)
  /\ goal_level # ACTION_GOAL
  /\ count > RetryLimit
  /\ InTable(behaviour)
  /\ behaviour' = CanonicalTable[behaviour]
  /\ count' = count + 1
  /\ UNCHANGED << pc, goal_level, performance, phase, state,
                  valid_behaviours, n_sample_action, n_sample_observation >>
  /\ UNCHANGED << pvars, avars, dvars, mvars >>

\* lines 115-121: any other behaviour moves the latent state (the end marker
\* is replaced by the start marker first) and a behaviour is sampled there;
\* the counter is set to 0 and then incremented.
ResolveAdvance ==
  /\ pc = "resolve"
  /\ NotValid(behaviour, valid_behaviours)
  /\ goal_level # ACTION_GOAL
  /\ count > RetryLimit
  /\ ~InTable(behaviour)
  /\ state' \in States
  /\ n_sample_observation' = Bump(n_sample_observation, ObsCap)
  /\ behaviour' \in Emits(policy)
  /\ n_sample_action' = Bump(n_sample_action, CallCap)
  /\ count' = 0 + 1
  /\ UNCHANGED << pc, goal_level, performance, phase, valid_behaviours >>
  /\ UNCHANGED << pvars, avars, dvars, mvars >>

ResolveStep ==
  \/ ResolveSilence
  \/ ResolveResample
  \/ ResolveCanonical
  \/ ResolveAdvance

\* lines 76, 125: the loop is left and the behaviour returned
get_behaviour_return ==
  /\ pc = "resolve"
  /\ ~NotValid(behaviour, valid_behaviours)
  /\ pc' = "returned"
  /\ UNCHANGED << goal_level, performance, phase, state, behaviour, count,
                  valid_behaviours, n_sample_action, n_sample_observation >>
  /\ UNCHANGED << pvars, avars, dvars, mvars >>

\* ------------------------------------------------------------------------
\* The controller and the blackboard of the interaction state machine
\* ------------------------------------------------------------------------
\* how many samples the accumulators hold in total
MaxSamples == 3
\* how far EndSubgoal is followed below the person level
MaxUnderflow == 1
\* how far the session time and the set count are followed
MaxSessionTime == 2
MaxSetCount == 3

\* the levels a node may find as 'goal' on the blackboard: the default of
\* get_data('goal', -1), the five goal levels, and one level beyond
NodeGoals == (0 - 1)..(ACTION_GOAL + 1)
\* the performance levels the guide rates a repetition with
ListPerformances == GOOD..SLOW
\* scores and targets are counted in hundredths
Scores == {50, 70}
Targets == {75}
\* what the participant's file may hold as the last session's performance
StoredPerformances == {SLOW}
\* a blackboard attribute no node has set yet
Unset == 0 - 9
NoScore == << 0, 0 >>

\* InitialiseBlackboard deposits start_time 0 (line 1012) and GetDuration a
\* session duration of 1 (line 466)
InitEvents ==
  /\ expecting_action_goal = FALSE
  /\ nd_start_time = 0
  /\ nd_session_duration = 1

InitMachine ==
  /\ InitEvents
  /\ c_goal_level = PERSON_GOAL
  /\ c_phase = PHASE_START
  /\ c_completed = FALSE
  /\ c_set_count = 0
  /\ c_session_time = 0
  /\ c_exercise_count = 0
  /\ c_performance = GOOD
  /\ c_score = 50
  /\ c_target \in Targets
  /\ session_performance_list = << >>
  /\ exercise_performance_list = << >>
  /\ set_performance_list = << >>
  /\ exercise_score_list = << >>
  /\ set_score_list = << >>
  /\ nd_new_goal = Unset
  /\ nd_phase = PHASE_START
  /\ nd_performance = 0 - 1
  /\ nd_score = NoScore
  /\ nd_target = Unset
  /\ nd_person = "unset"

\* ------------------------------------------------------------------------
\* The wrapper on its own: any caller, any arguments, any sampler.
\* ------------------------------------------------------------------------
InitLocals ==
  /\ pc = "idle"
  /\ goal_level = PERSON_GOAL /\ performance = 0 - 1 /\ phase = PHASE_START
  /\ state = 0
  /\ behaviour = "A_START"
  /\ count = 0
  /\ valid_behaviours = {}
  /\ n_sample_action = 0
  /\ n_sample_observation = 0

InitDriver ==
  /\ self_state = 0
  /\ nd_behaviour = "A_START"
  /\ nd_obs_behaviour = "A_START"
  /\ nd_observation = 0
  /\ nd_previous_phase = PHASE_START
  /\ observation_state = 0
  /\ used_behaviours = << >>
  /\ prev_behav = "A_START"
  /\ check_behaviour = "A_START"
  /\ node = "none"
  /\ status = "none"

\* no action formatted, no blackboard initialised yet
InitAction ==
  /\ c_given_score = 0
  /\ nd_action = << >>
  /\ nd_belief = << >>
  /\ nd_state = Unset

InitWrapper ==
  /\ InitLocals
  /\ InitDriver
  /\ InitAction
  /\ InitMachine
  /\ policy = "any"
  /\ subtree = "decision"

WrapperCall ==
  \E s \in States, g \in GoalLevels, perf \in Performances, ph \in Phases :
    /\ get_behaviour_call(s, g, perf, ph)
    /\ UNCHANGED << dvars, mvars >>

NextWrapper ==
  \/ WrapperCall
  \/ ResolveSilence
  \/ ResolveResample
  \/ ResolveCanonical
  \/ ResolveAdvance
  \/ get_behaviour_return

SpecWrapper == InitWrapper /\ [][NextWrapper]_vars

\* A call that has begun keeps executing: the loop body and the return are
\* ordinary sequential code.
FairWrapper == SpecWrapper /\ WF_vars(ResolveStep \/ get_behaviour_return)

\* ------------------------------------------------------------------------
\* GetBehaviour (nodes.py, lines 96-149)
\* ------------------------------------------------------------------------
Range(seq) == { seq[i] : i \in 1..Len(seq) }

\* A variant of the repetition test that leaves out the set goal.
IsRepeatAnyLevel(b, used, g) ==
  b \in Range(used)

IsRepeatNoSet(b, used, g) ==
  /\ b \in Range(used)
  /\ (g = SESSION_GOAL \/ g = EXERCISE_GOAL)

\* line 128: the behaviour was used before and the goal is a session,
\* exercise or set goal
IsRepeat(b, used, g) ==
  /\ b \in Range(used)
  /\ (g = SESSION_GOAL \/ g = EXERCISE_GOAL \/ g = SET_GOAL)

\* The decision step is explored with the performance InitialiseBlackboard
\* deposits (nodes.py line 1009); no behaviour of the core policy depends on
\* the performance for its validity.
DecisionPerformances == {0 - 1}

\* lines 96-113, 123-124: configure reads goal, performance, phase and the
\* state off the blackboard; run builds the wrapper and calls get_behaviour.
\* No state has been handed to get_observation in this run yet.
GetBehaviourBegin ==
  \E s \in States, g \in GoalLevels, perf \in DecisionPerformances, ph \in Phases :
    /\ Len(used_behaviours) < MaxUsed
    /\ get_behaviour_call(s, g, perf, ph)
    /\ self_state' = s
    /\ UNCHANGED << nd_behaviour, nd_obs_behaviour, nd_observation,
                    nd_previous_phase, used_behaviours, prev_behav,
                    check_behaviour, node, status >>
    /\ observation_state' = 0
    /\ UNCHANGED mvars

ObservationStateAdvanced(configured, advanced) ==
  advanced

\* line 137: get_observation is handed self.state, the state read at
\* configure; the state get_behaviour advanced was its own local
ObservationState(configured, advanced) ==
  configured

\* lines 124-140, 149: get_behaviour has returned.  Its one returned
\* behaviour is what the node takes both nodedata.behaviour and
\* nodedata.obs_behaviour from.  A repeated behaviour is replaced by the
\* pre-instruction, any other is appended to controller.used_behaviours;
\* the observation is asked of the policy for the state read at configure;
\* cleanup resets previous_phase.  The call's locals end with the call, and
\* the node's fields are dead until the next configure overwrites them: both
\* go back to their initial values.
GetBehaviourEnd ==
  /\ pc = "resolve"
  /\ ~NotValid(behaviour, valid_behaviours)
  /\ pc' = "idle"
  /\ nd_obs_behaviour' = behaviour
  /\ IF IsRepeat(behaviour, used_behaviours, goal_level)
       THEN /\ nd_behaviour' = "A_PREINSTRUCTION"
            /\ UNCHANGED used_behaviours
       ELSE /\ nd_behaviour' = behaviour
            /\ used_behaviours' = Append(used_behaviours, behaviour)
  /\ prev_behav' = nd_behaviour'
  /\ nd_observation' \in States
  /\ observation_state' = ObservationState(self_state, state)
  /\ nd_previous_phase' = PHASE_START
  /\ node' = "GetBehaviour"
  /\ status' = "SUCCESS"
  /\ state' = 0 /\ behaviour' = "A_START" /\ count' = 0
  /\ valid_behaviours' = {}
  /\ n_sample_action' = 0 /\ n_sample_observation' = 0
  /\ goal_level' = PERSON_GOAL /\ performance' = 0 - 1 /\ phase' = PHASE_START
  /\ self_state' = 0
  /\ UNCHANGED << pvars, avars, check_behaviour, mvars >>

\* ------------------------------------------------------------------------
\* CheckForBehaviour (nodes.py, lines 285-330)
\* ------------------------------------------------------------------------
PreInstructionCategory ==
  { "A_PREINSTRUCTION", "A_PREINSTRUCTION_PRAISE", "A_PREINSTRUCTION_QUESTIONING",
    "A_PREINSTRUCTION_POSITIVEMODELING", "A_POSITIVEMODELING_PREINSTRUCTION",
    "A_PREINSTRUCTION_FIRSTNAME", "A_PREINSTRUCTION_MANUALMANIPULATION",
    "A_PREINSTRUCTION_NEGATIVEMODELING", "A_MANUALMANIPULATION_PREINSTRUCTION" }

QuestioningCategory ==
  { "A_QUESTIONING", "A_PREINSTRUCTION_QUESTIONING", "A_QUESTIONING_FIRSTNAME",
    "A_QUESTIONING_POSITIVEMODELING", "A_POSITIVEMODELING_QUESTIONING",
    "A_CONCURRENTINSTRUCTIONPOSITIVE_QUESTIONING", "A_MANUALMANIPULATION_QUESTIONING",
    "A_POSTINSTRUCTIONNEGATIVE_QUESTIONING", "A_POSTINSTRUCTIONPOSITIVE_QUESTIONING",
    "A_QUESTIONING_NEGATIVEMODELING" }

\* lines 317-330: every category other than the pre-instruction is checked
\* against the questioning list
_is_example_of_behaviour(b, check) ==
  IF check = "A_PREINSTRUCTION"
    THEN b \in PreInstructionCategory
    ELSE b \in QuestioningCategory

\* The categories the tree asks CheckForBehaviour about.
CheckedCategories == {"A_PREINSTRUCTION", "A_QUESTIONING"}

\* lines 285-315: configure reads the behaviour and the category off the
\* blackboard; run empties controller.used_behaviours on a match.
CheckForBehaviour ==
  \E check \in CheckedCategories :
    /\ pc = "idle"
    /\ check_behaviour' = check
    /\ IF _is_example_of_behaviour(nd_behaviour, check)
         THEN /\ used_behaviours' = << >>
              /\ status' = "SUCCESS"
         ELSE /\ UNCHANGED used_behaviours
              /\ status' = "FAIL"
    /\ node' = "CheckForBehaviour"
    /\ UNCHANGED << wvars, pvars, avars, self_state, nd_behaviour, nd_obs_behaviour,
                    nd_observation, nd_previous_phase, prev_behav, observation_state >>
    /\ UNCHANGED mvars

\* ------------------------------------------------------------------------
\* The decision step: GetBehaviour and CheckForBehaviour over the core policy
\* ------------------------------------------------------------------------
InitDecision ==
  /\ InitLocals
  /\ InitDriver
  /\ InitAction
  /\ InitMachine
  /\ policy = "core"
  /\ subtree = "decision"

NextDecision ==
  \/ GetBehaviourBegin
  \/ ResolveSilence
  \/ ResolveResample
  \/ ResolveCanonical
  \/ ResolveAdvance
  \/ GetBehaviourEnd
  \/ CheckForBehaviour

SpecDecision == InitDecision /\ [][NextDecision]_vars

\* ========================================================================
\* The interaction state machine (nodes.py, CreateSubgoal, EndSubgoal and
\* TimestepCue).  The API module that writes the controller on the guide's
\* requests is outside these files: the state it left behind is drawn in the
\* initial states, and the actions are the nodes' configure and run.
\* ========================================================================
\* what the decision step keeps on the blackboard and in the controller
bvars == << self_state, nd_behaviour, nd_obs_behaviour, nd_observation,
            nd_previous_phase, used_behaviours, prev_behav, check_behaviour, observation_state >>

\* ------------------------------------------------------------------------
\* CreateSubgoal (nodes.py, lines 496-522)
\* ------------------------------------------------------------------------
\* configure reads 'goal' (default -1) as previous_goal_level; run fails when
\* it is greater than ACTION_GOAL and else deposits previous_goal_level + 1.
CreateSubgoal(g) ==
  /\ pc = "idle"
  /\ node' = "CreateSubgoal"
  /\ IF g > ACTION_GOAL
       THEN /\ status' = "FAIL"
            /\ UNCHANGED nd_new_goal
       ELSE /\ nd_new_goal' = g + 1
            /\ status' = "SUCCESS"
  /\ UNCHANGED << wvars, pvars, avars, bvars, c_goal_level, c_phase, c_completed,
                  c_set_count, c_session_time, c_exercise_count,
                  c_performance, c_score, c_target, lvars, nd_phase,
                  nd_performance, nd_score, nd_target, nd_person >>
  /\ UNCHANGED evars

\* ------------------------------------------------------------------------
\* EndSubgoal (nodes.py, lines 549-587)
\* ------------------------------------------------------------------------
\* A variant of the test of line 570 that forgets the set count.
DecrementsParentAnySet(g, set_count) ==
  g = SET_GOAL \/ g = EXERCISE_GOAL \/ g = SESSION_GOAL

\* line 570: the goals whose end moves the controller up a level
DecrementsParent(g, set_count) ==
  \/ (g = SET_GOAL /\ set_count = 2)
  \/ g = EXERCISE_GOAL
  \/ g = SESSION_GOAL

CountsSessionTimeAtSet(g) ==
  g = EXERCISE_GOAL \/ g = SET_GOAL

\* line 578: the end of an exercise counts towards the session time
CountsSessionTime(g) ==
  g = EXERCISE_GOAL

InvalidEndGoalFromAction(g) ==
  g > 3

\* line 566: the level EndSubgoal refuses to end
InvalidEndGoal(g) ==
  g > 4

\* configure reads 'goal' (default -1); run fails above level 4.  Below, it
\* moves the controller (lines 570-574), deposits new_goal and phase, sets
\* the completed flag and counts the session time of an ended exercise.  With
\* new_goal = -1 it calls time.sleep, and time is the function imported at
\* line 33, which has no attribute sleep: the call raises after the state has
\* been written.
EndSubgoal(g) ==
  /\ pc = "idle"
  /\ node' = "EndSubgoal"
  /\ IF InvalidEndGoal(g)
       THEN /\ status' = "FAIL"
            /\ UNCHANGED << c_goal_level, c_phase, c_completed,
                            c_session_time, nd_new_goal, nd_phase >>
       ELSE /\ IF DecrementsParent(g, c_set_count)
                 THEN /\ c_goal_level > 0 - MaxUnderflow
                      /\ c_goal_level' = c_goal_level - 1
                      /\ c_phase' = PHASE_END
                 ELSE /\ c_phase' = PHASE_START
                      /\ UNCHANGED c_goal_level
            /\ nd_new_goal' = g - 1
            /\ nd_phase' = PHASE_START
            /\ c_completed' = TRUE
            /\ IF CountsSessionTime(g)
                 THEN /\ c_session_time < MaxSessionTime
                      /\ c_session_time' = c_session_time + 1
                 ELSE UNCHANGED c_session_time
            /\ status' = IF g - 1 = 0 - 1 THEN "EXCEPTION" ELSE "SUCCESS"
  /\ UNCHANGED << wvars, pvars, avars, bvars, c_set_count, c_exercise_count,
                  c_performance, c_score, c_target, lvars, nd_performance,
                  nd_score, nd_target, nd_person >>
  /\ UNCHANGED evars

\* The subgoal nodes, from any level, phase and set count of the controller.
InitSubgoal ==
  /\ InitLocals
  /\ InitEvents
  /\ InitDriver
  /\ InitAction
  /\ policy = "core"
  /\ subtree = "goal"
  /\ c_goal_level \in GoalLevels
  /\ c_phase \in Phases
  /\ c_completed = FALSE
  /\ c_set_count \in 0..MaxSetCount
  /\ c_session_time = 0
  /\ c_exercise_count = 0
  /\ c_performance = GOOD
  /\ c_score = 50
  /\ c_target \in Targets
  /\ session_performance_list = << >>
  /\ exercise_performance_list = << >>
  /\ set_performance_list = << >>
  /\ exercise_score_list = << >>
  /\ set_score_list = << >>
  /\ nd_new_goal = Unset
  /\ nd_phase \in Phases
  /\ nd_performance = 0 - 1
  /\ nd_score = NoScore
  /\ nd_target = Unset
  /\ nd_person = "unset"

NextSubgoal ==
  \/ \E g \in NodeGoals : CreateSubgoal(g)
  \/ \E g \in NodeGoals : EndSubgoal(g)

SpecSubgoal == InitSubgoal /\ [][NextSubgoal]_vars

\* ------------------------------------------------------------------------
\* TimestepCue (nodes.py, lines 610-778)
\* ------------------------------------------------------------------------
RECURSIVE Sum(_)
Sum(list) == IF list = << >> THEN 0 ELSE Head(list) + Sum(Tail(list))

RECURSIVE GCD(_, _)
GCD(a, b) == IF b = 0 THEN a ELSE GCD(b, a % b)

\* a number as the fraction << numerator, denominator >> in lowest terms
Fraction(a, b) == << a \div GCD(a, b), b \div GCD(a, b) >>

\* statistics.mean of a non-empty list (line 32); of an empty list it raises
mean(list) == Fraction(Sum(list), Len(list))

\* A variant of round that drops the fractional part.
round_down(q) == q[1] \div q[2]

\* Python's round of a number to an integer: to the nearest one, and to the
\* even one of the two when the number lies half way
round(q) ==
  LET floor == q[1] \div q[2]
      rest  == q[1] % q[2]
  IN  IF 2 * rest < q[2] THEN floor
      ELSE IF 2 * rest > q[2] THEN floor + 1
      ELSE IF floor % 2 = 0 THEN floor ELSE floor + 1

\* A variant of the test of the tracked level that accepts a controller
\* already beyond the level asked for.
MatchesOrBeyond(tracked, level) == tracked >= level

\* lines 649, 676, 713, 738, 761: the controller's tracked level is the level
\* the node asks for
Matches(tracked, level) == tracked = level

\* what one run of TimestepCue leaves in the controller and on the blackboard
CueResult(st, cg, cperf, reps, ph, perf, sc, tg, person) ==
  /\ status' = st
  /\ c_goal_level' = cg
  /\ c_performance' = cperf
  /\ c_exercise_count' = reps
  /\ nd_phase' = ph
  /\ nd_performance' = perf
  /\ nd_score' = sc
  /\ nd_target' = tg
  /\ nd_person' = person

\* a run that changes what is given and leaves the rest as it was
CueDeposit(st, ph, perf, sc, tg) ==
  CueResult(st, c_goal_level, c_performance, c_exercise_count, ph, perf, sc,
            tg, nd_person)

CueNothing(st) ==
  CueDeposit(st, nd_phase, nd_performance, nd_score, nd_target)

\* lines 648-672: the person goal, asked for with goal -1.  In the end phase
\* the mean of an empty list raises, and so may the write to the session
\* file, after the performance has been deposited.
CuePerson ==
  IF Matches(c_goal_level, PERSON_GOAL)
    THEN IF c_phase = PHASE_END
           THEN IF session_performance_list = << >>
                  THEN CueNothing("EXCEPTION")
                  ELSE \E file_ok \in BOOLEAN :
                    IF file_ok
                      THEN CueDeposit("SUCCESS", PHASE_END,
                                      round(mean(session_performance_list)),
                                      nd_score, nd_target)
                      ELSE CueDeposit("EXCEPTION", nd_phase,
                                      round(mean(session_performance_list)),
                                      nd_score, nd_target)
           ELSE CueResult("SUCCESS", c_goal_level, c_performance,
                          c_exercise_count, PHASE_START, nd_performance,
                          nd_score, nd_target, "guide")
    ELSE CueNothing("ACTIVE")

\* lines 674-710: the session goal.  While waiting the node reads the
\* participant's file, which may raise, takes the last session's performance
\* from it when it holds one, and moves the controller to the session level
\* itself.
CueSession ==
  IF Matches(c_goal_level, SESSION_GOAL)
    THEN IF c_phase = PHASE_END
           THEN IF session_performance_list = << >>
                  THEN CueNothing("EXCEPTION")
                  ELSE \E file_ok \in BOOLEAN :
                    IF file_ok
                      THEN CueDeposit("SUCCESS", PHASE_END,
                                      round(mean(session_performance_list)),
                                      nd_score, nd_target)
                      ELSE CueDeposit("EXCEPTION", nd_phase,
                                      round(mean(session_performance_list)),
                                      nd_score, nd_target)
           ELSE CueDeposit("SUCCESS", PHASE_START, c_performance, nd_score,
                           nd_target)
    ELSE \/ \E read \in {c_performance} \cup StoredPerformances :
              CueResult("ACTIVE", SESSION_GOAL, read, c_exercise_count,
                        nd_phase, nd_performance, nd_score, nd_target,
                        nd_person)
         \/ CueNothing("EXCEPTION")

\* A variant of the exercise-goal branch that leaves the controller at the
\* exercise level at the start.
CueExerciseStaying ==
  IF Matches(c_goal_level, EXERCISE_GOAL)
    THEN IF c_phase = PHASE_END
           THEN IF exercise_performance_list = << >>
                  THEN CueNothing("EXCEPTION")
                  ELSE IF exercise_score_list = << >>
                    THEN CueDeposit("EXCEPTION", nd_phase,
                                    round(mean(exercise_performance_list)),
                                    nd_score, nd_target)
                    ELSE CueDeposit("SUCCESS", PHASE_END,
                                    round(mean(exercise_performance_list)),
                                    mean(exercise_score_list), c_target)
           ELSE CueDeposit("SUCCESS", PHASE_START, c_performance, nd_score,
                           nd_target)
    ELSE CueNothing("ACTIVE")

\* lines 712-735: the exercise goal.  At the start the node moves the
\* controller on to the set level.
CueExercise ==
  IF Matches(c_goal_level, EXERCISE_GOAL)
    THEN IF c_phase = PHASE_END
           THEN IF exercise_performance_list = << >>
                  THEN CueNothing("EXCEPTION")
                  ELSE IF exercise_score_list = << >>
                    THEN CueDeposit("EXCEPTION", nd_phase,
                                    round(mean(exercise_performance_list)),
                                    nd_score, nd_target)
                    ELSE CueDeposit("SUCCESS", PHASE_END,
                                    round(mean(exercise_performance_list)),
                                    mean(exercise_score_list), c_target)
           ELSE CueResult("SUCCESS", SET_GOAL, c_performance,
                          c_exercise_count, PHASE_START, c_performance,
                          nd_score, nd_target, nd_person)
    ELSE CueNothing("ACTIVE")

\* lines 737-758: the set goal.  In the end phase the phase is deposited
\* first; at the start the repetition count is reset.
CueSet ==
  IF Matches(c_goal_level, SET_GOAL)
    THEN IF c_phase = PHASE_END
           THEN IF set_performance_list = << >>
                  THEN CueDeposit("EXCEPTION", PHASE_END, nd_performance,
                                  nd_score, nd_target)
                  ELSE IF set_score_list = << >>
                    THEN CueDeposit("EXCEPTION", PHASE_END,
                                    round(mean(set_performance_list)),
                                    nd_score, nd_target)
                    ELSE CueDeposit("SUCCESS", PHASE_END,
                                    round(mean(set_performance_list)),
                                    mean(set_score_list), c_target)
           ELSE CueResult("SUCCESS", c_goal_level, c_performance, 0,
                          PHASE_START, c_performance, nd_score, nd_target,
                          nd_person)
    ELSE CueNothing("ACTIVE")

\* A variant of the action-goal branch that, while waiting, moves the
\* controller to the level asked for as the session branch does.
CueActionAdopting ==
  IF Matches(c_goal_level, ACTION_GOAL)
    THEN CueResult("SUCCESS", SET_GOAL, c_performance, c_exercise_count,
                   PHASE_END, c_performance, Fraction(c_score, 1), c_target,
                   nd_person)
    ELSE CueResult("ACTIVE", ACTION_GOAL, c_performance, c_exercise_count,
                   nd_phase, nd_performance, nd_score, nd_target, nd_person)

\* lines 760-771: the action goal: the controller goes back to the set level
\* and the blackboard gets the end phase and the guide's rating of the action
CueAction ==
  IF Matches(c_goal_level, ACTION_GOAL)
    THEN CueResult("SUCCESS", SET_GOAL, c_performance, c_exercise_count,
                   PHASE_END, c_performance, Fraction(c_score, 1), c_target,
                   nd_person)
    ELSE CueNothing("ACTIVE")

\* lines 773-778: any other goal gets the dummy values 0.80 and 0.79
CueDummy ==
  CueDeposit("SUCCESS", PHASE_START, GOOD, Fraction(79, 1), 80)

\* configure (lines 610-614) reads 'goal' and clears the completed flag; run
\* takes the branch of the goal it read.
TimestepCue(g) ==
  /\ pc = "idle"
  /\ node' = "TimestepCue"
  /\ c_completed' = FALSE
  /\ CASE g = 0 - 1 -> CuePerson
       [] g = SESSION_GOAL -> CueSession
       [] g = EXERCISE_GOAL -> CueExercise
       [] g = SET_GOAL -> CueSet
       [] g = ACTION_GOAL -> CueAction
       [] OTHER -> CueDummy
  /\ UNCHANGED << wvars, pvars, avars, bvars, c_phase, c_set_count, c_session_time,
                  c_score, c_target, lvars, nd_new_goal >>
  /\ UNCHANGED evars

\* the lists of at most n entries over a set of values
ListsUpTo(values, n) == UNION { [1..k -> values] : k \in 0..n }

\* TimestepCue, from any level and phase of the controller and any
\* accumulators of at most MaxSamples samples in total.
InitCue ==
  /\ InitLocals
  /\ InitEvents
  /\ InitDriver
  /\ InitAction
  /\ policy = "core"
  /\ subtree = "goal"
  /\ c_goal_level \in GoalLevels
  /\ c_phase \in Phases
  /\ c_completed = FALSE
  /\ c_set_count = 0
  /\ c_session_time = 0
  /\ c_exercise_count = 1
  /\ c_performance = FAST
  /\ c_score = 70
  /\ c_target \in Targets
  /\ \E a \in 0..MaxSamples :
       \E b \in 0..(MaxSamples - a) :
         \E c \in 0..(MaxSamples - a - b) :
           \E d \in 0..(MaxSamples - a - b - c) :
             /\ session_performance_list \in [1..a -> ListPerformances]
             /\ exercise_performance_list \in [1..b -> ListPerformances]
             /\ set_performance_list \in [1..c -> ListPerformances]
             /\ exercise_score_list \in [1..d -> Scores]
             /\ set_score_list
                  \in ListsUpTo(Scores, MaxSamples - a - b - c - d)
  /\ nd_new_goal = Unset
  /\ nd_phase = PHASE_START
  /\ nd_performance = 0 - 1
  /\ nd_score = NoScore
  /\ nd_target = Unset
  /\ nd_person = "unset"

NextCue == \E g \in NodeGoals : TimestepCue(g)

SpecCue == InitCue /\ [][NextCue]_vars

\* ========================================================================
\* The end of a set and of the session (nodes.py, DurationCheck and
\* EndSetEvent)
\* ========================================================================
\* how far the repetition count, the start time and the session duration
\* are followed
MaxExerciseCount == 10
MaxStartTime == 1
MaxDuration == 2

\* ------------------------------------------------------------------------
\* DurationCheck (nodes.py, lines 806-834)
\* ------------------------------------------------------------------------
\* A variant of the test of line 826 that asks for more than the duration.
DurationPassed(current_time, start_time, session_duration) ==
  (current_time - start_time) > session_duration

\* line 826, negated: the time limit has been reached
DurationReached(current_time, start_time, session_duration) ==
  ~((current_time - start_time) < session_duration)

\* configure reads start_time and session_duration off the blackboard and
\* the controller's session time as the current time; run compares them.
DurationCheck ==
  /\ pc = "idle"
  /\ node' = "DurationCheck"
  /\ status' = IF DurationReached(c_session_time, nd_start_time,
                                  nd_session_duration)
                 THEN "SUCCESS" ELSE "FAIL"
  /\ UNCHANGED << wvars, pvars, avars, bvars, mvars >>

\* ------------------------------------------------------------------------
\* EndSetEvent (nodes.py, lines 901-931)
\* ------------------------------------------------------------------------
\* line 913: the repetitions asked of the first set and of a later one
FirstSetRepetitions == 10
LaterSetRepetitions == 5

\* A variant of the test of line 913 that asks for more than the threshold.
SetEndedLate(firstTime, exercisecount) ==
  \/ (firstTime /\ exercisecount > FirstSetRepetitions)
  \/ (~firstTime /\ exercisecount > LaterSetRepetitions)

\* line 913: the set has had its repetitions
SetEnded(firstTime, exercisecount) ==
  \/ (firstTime /\ exercisecount >= FirstSetRepetitions)
  \/ (~firstTime /\ exercisecount >= LaterSetRepetitions)

\* A variant of EndSetEvent that ends the set without counting it.
EndSetEventUncounted ==
  /\ pc = "idle"
  /\ node' = "EndSetEvent"
  /\ IF SetEnded(c_set_count = 0, c_exercise_count)
       THEN /\ c_set_count <= MaxSetCount
            /\ expecting_action_goal' = FALSE
            /\ c_completed' = TRUE
            /\ c_set_count' = c_set_count
            /\ status' = "SUCCESS"
       ELSE /\ status' = "FAIL"
            /\ UNCHANGED << expecting_action_goal, c_completed, c_set_count >>
  /\ UNCHANGED << wvars, pvars, avars, bvars, c_goal_level, c_phase,
                  c_session_time, c_exercise_count, c_performance, c_score,
                  c_target, lvars, nd_new_goal, nd_phase, nd_performance,
                  nd_score, nd_target, nd_person, nd_start_time,
                  nd_session_duration >>

\* configure captures the repetition count and whether no set has been
\* completed yet; run ends the set when it has had its repetitions: it stops
\* expecting action goals, sets the completed flag, counts the set and posts
\* the stop message (the post is taken to return).
EndSetEvent ==
  /\ pc = "idle"
  /\ node' = "EndSetEvent"
  /\ IF SetEnded(c_set_count = 0, c_exercise_count)
       THEN /\ c_set_count <= MaxSetCount
            /\ expecting_action_goal' = FALSE
            /\ c_completed' = TRUE
            /\ c_set_count' = c_set_count + 1
            /\ status' = "SUCCESS"
       ELSE /\ status' = "FAIL"
            /\ UNCHANGED << expecting_action_goal, c_completed, c_set_count >>
  /\ UNCHANGED << wvars, pvars, avars, bvars, c_goal_level, c_phase,
                  c_session_time, c_exercise_count, c_performance, c_score,
                  c_target, lvars, nd_new_goal, nd_phase, nd_performance,
                  nd_score, nd_target, nd_person, nd_start_time,
                  nd_session_duration >>

\* DurationCheck and EndSetEvent, from any repetition count, set count and
\* session time of the controller and any start time and duration.
InitSession ==
  /\ InitLocals
  /\ InitDriver
  /\ InitAction
  /\ policy = "core"
  /\ subtree = "goal"
  /\ expecting_action_goal \in BOOLEAN
  /\ nd_start_time \in 0..MaxStartTime
  /\ nd_session_duration \in 0..MaxDuration
  /\ c_goal_level = SET_GOAL
  /\ c_phase = PHASE_START
  /\ c_completed \in BOOLEAN
  /\ c_set_count \in 0..MaxSetCount
  /\ c_session_time \in 0..MaxSessionTime
  /\ c_exercise_count \in 0..MaxExerciseCount
  /\ c_performance = GOOD
  /\ c_score = 50
  /\ c_target \in Targets
  /\ session_performance_list = << >>
  /\ exercise_performance_list = << >>
  /\ set_performance_list = << >>
  /\ exercise_score_list = << >>
  /\ set_score_list = << >>
  /\ nd_new_goal = Unset
  /\ nd_phase = PHASE_START
  /\ nd_performance = 0 - 1
  /\ nd_score = NoScore
  /\ nd_target = Unset
  /\ nd_person = "unset"

NextSession ==
  \/ DurationCheck
  \/ EndSetEvent

SpecSession == InitSession /\ [][NextSession]_vars

\* ------------------------------------------------------------------------
\* All the nodes: a run ticks the decision step or the goal nodes
\* ------------------------------------------------------------------------
\* FormatAction (nodes.py, lines 186-254).  The behaviour library is taken
\* to return its strings.
\* ------------------------------------------------------------------------
\* a performance of None on the blackboard (tested at line 243)
NonePerformance == 0 - 8

\* lines 217-233: the behaviours that come with a demonstration
DemoBehaviours ==
  { "A_POSITIVEMODELING", "A_NEGATIVEMODELING",
    "A_PREINSTRUCTION_POSITIVEMODELING", "A_PREINSTRUCTION_NEGATIVEMODELING",
    "A_POSTINSTRUCTIONPOSITIVE_POSITIVE_MODELING",
    "A_POSTINSTRUCTIONPOSITIVE_NEGATIVE_MODELING",
    "A_POSTINSTRUCTIONNEGATIVE_POSITIVEMODELING",
    "A_POSTINSTRUCTIONNEGATIVE_NEGATIVEMODELING",
    "A_QUESTIONING_NEGATIVEMODELING",
    "A_POSITIVEMODELING_POSTINSTRUCTIONPOSITIVE",
    "A_NEGATIVEMODELING_POSTINSTRUCTIONNEGATIVE",
    "A_POSITIVEMODELING_PREINSTRUCTION", "A_SCOLD_POSITIVEMODELING",
    "A_CONCURRENTINSTRUCTIONPOSITIVE_POSITIVEMODELING",
    "A_CONCURRENTINSTRUCTIONNEGATIVE_NEGATIVEMODELING",
    "A_MANUALMANIPULATION_POSITIVEMODELING",
    "A_QUESTIONING_POSITIVEMODELING",
    "A_POSITIVEMODELING_CONCURRENTINSTRUCTIONPOSITIVE",
    "A_POSITIVEMODELING_QUESTIONING", "A_POSITIVEMODELING_HUSTLE",
    "A_POSITIVEMODELING_PRAISE" }

\* lines 235-237: the behaviours that come with a question
QuestionBehaviours ==
  { "A_QUESTIONING", "A_QUESTIONING_FIRSTNAME",
    "A_QUESTIONING_POSITIVEMODELING", "A_POSITIVEMODELING_QUESTIONING",
    "A_QUESTIONING_NEGATIVEMODELING" }

\* lines 234-241: the question asked with the behaviour, if any
Question(b, g) ==
  IF b \in QuestionBehaviours
    THEN IF g = ACTION_GOAL THEN "Concurrent" ELSE "GoodBad"
    ELSE "None"

\* line 199: get_data('performance', 0)
PerformanceOrDefault(perf) == IF perf = Unset THEN 0 ELSE perf

\* A variant that lets a third score through.
ScoreWithheldFromThree(score, perf, given) ==
  (score = NoScore /\ perf = NonePerformance) \/ given >= 3

\* line 243: the action is created without score and target
ScoreWithheld(score, perf, given) ==
  (score = NoScore /\ perf = NonePerformance) \/ given >= 2

\* line 247: the levels at which a given score is counted
CountsGivenScore(g) ==
  g = EXERCISE_GOAL \/ g = SESSION_GOAL \/ g = PERSON_GOAL

\* configure reads goal, performance, score and behaviour from the
\* blackboard; run creates the action unless the behaviour is silence.
FormatAction(g) ==
  /\ pc = "idle"
  /\ node' = "FormatAction"
  /\ IF nd_behaviour # "A_SILENCE"
       THEN LET withheld ==
                  ScoreWithheld(nd_score, PerformanceOrDefault(nd_performance),
                                c_given_score)
            IN /\ nd_action' = << [scored |-> ~withheld,
                                   demo |-> nd_behaviour \in DemoBehaviours,
                                   question |-> Question(nd_behaviour, g)] >>
               /\ c_given_score' = IF ~withheld /\ CountsGivenScore(g)
                                     THEN c_given_score + 1
                                     ELSE c_given_score
               /\ status' = "SUCCESS"
       ELSE /\ status' = "FAIL"
            /\ UNCHANGED << nd_action, c_given_score >>
  /\ UNCHANGED << wvars, pvars, bvars, mvars, nd_belief, nd_state >>

\* ------------------------------------------------------------------------
\* InitialiseBlackboard (nodes.py, lines 961-1060)
\* ------------------------------------------------------------------------
\* line 991: the belief has one entry per style
BeliefLength == 12
\* how far the user's impairment is followed
MaxImpairment == 5

\* A variant that takes an impairment of 4 for low experience.
ExperienceFromFive(impairment) == IF impairment < 5 THEN "low" ELSE "high"

\* lines 972-975
Experience(impairment) == IF impairment < 4 THEN "low" ELSE "high"

\* lines 986-996: the belief over the styles, a sequence indexed from 1
belief_distribution(pol, experience) ==
  IF pol = 0 - 1
    THEN IF experience = "high"
           THEN << 0, 0, 0, 1, 0, 0, 0, 0, 0, 0, 0, 0 >>
           ELSE << 0, 0, 0, 0, 0, 0, 0, 0, 1, 0, 0, 0 >>
    ELSE [i \in 1..BeliefLength |-> IF pol = i - 1 THEN 1 ELSE 0]

\* lines 998-1005: the loop keeps the first style of the largest belief
RECURSIVE max_style(_, _, _, _)
max_style(belief, i, max_belief, best) ==
  IF i > Len(belief)
    THEN best
    ELSE IF belief[i] > max_belief
      THEN max_style(belief, i + 1, belief[i], i - 1)
      ELSE max_style(belief, i + 1, max_belief, best)

\* lines 1036-1060
_get_start(style) ==
  CASE style = 0 -> 0
    [] style = 1 -> 45
    [] style = 2 -> 90
    [] style = 3 -> 135
    [] style = 4 -> 180
    [] style = 5 -> 225
    [] style = 6 -> 270
    [] style = 7 -> 323
    [] style = 8 -> 376
    [] style = 9 -> 429
    [] style = 10 -> 482
    [] OTHER -> 535

\* configure reads the impairment; run deposits belief, start state,
\* performance, phase and start time, then looks for the participant's file
\* and creates it when it cannot be read, which may raise.
InitialiseBlackboard(pol, imp) ==
  /\ pc = "idle"
  /\ node' = "InitialiseBlackboard"
  /\ nd_belief' = belief_distribution(pol, Experience(imp))
  /\ nd_state' = _get_start(max_style(nd_belief', 1, 0, 0))
  /\ nd_performance' = 0 - 1
  /\ nd_phase' = PHASE_START
  /\ nd_start_time' = 0
  /\ status' \in {"SUCCESS", "EXCEPTION"}
  /\ UNCHANGED << wvars, pvars, bvars, c_goal_level, c_phase, c_completed,
                  c_set_count, c_session_time, c_exercise_count,
                  c_performance, c_score, c_target, lvars, nd_new_goal,
                  nd_score, nd_target, nd_person, expecting_action_goal,
                  nd_session_duration, c_given_score, nd_action >>

\* controller.policy as the API may set it, and the user's impairment
ControllerPolicies == (0 - 1)..BeliefLength
Impairments == 0..MaxImpairment

\* the behaviours FormatAction is run with: silence, one with a question,
\* one with a demonstration, one with both, two with neither
FormatBehaviours ==
  { "A_SILENCE", "A_QUESTIONING", "A_POSITIVEMODELING",
    "A_QUESTIONING_POSITIVEMODELING", "A_PRAISE", "A_END" }

\* FormatAction and InitialiseBlackboard, for these behaviours, any score
\* and performance on the blackboard and no score given yet.
InitBlackboard ==
  /\ InitLocals
  /\ InitEvents
  /\ InitAction
  /\ policy = "any"
  /\ subtree = "decision"
  /\ self_state = 0
  /\ nd_behaviour \in FormatBehaviours
  /\ nd_obs_behaviour = nd_behaviour
  /\ nd_observation = 0
  /\ nd_previous_phase = PHASE_START
  /\ observation_state = 0
  /\ used_behaviours = << >>
  /\ prev_behav = "A_START"
  /\ check_behaviour = "A_START"
  /\ node = "none"
  /\ status = "none"
  /\ c_goal_level = PERSON_GOAL
  /\ c_phase = PHASE_START
  /\ c_completed = FALSE
  /\ c_set_count = 0
  /\ c_session_time = 0
  /\ c_exercise_count = 0
  /\ c_performance = GOOD
  /\ c_score = 50
  /\ c_target \in Targets
  /\ session_performance_list = << >>
  /\ exercise_performance_list = << >>
  /\ set_performance_list = << >>
  /\ exercise_score_list = << >>
  /\ set_score_list = << >>
  /\ nd_new_goal = Unset
  /\ nd_phase = PHASE_START
  /\ nd_performance \in Performances \cup {Unset, NonePerformance}
  /\ nd_score \in {NoScore, Fraction(50, 1)}
  /\ nd_target = Unset
  /\ nd_person = "unset"

NextBlackboard ==
  \/ \E g \in NodeGoals : FormatAction(g)
  \/ \E pol \in ControllerPolicies, imp \in Impairments :
       InitialiseBlackboard(pol, imp)

SpecBlackboard == InitBlackboard /\ [][NextBlackboard]_vars

\* InitialiseBlackboard on its own, over whatever is on the blackboard
NextInitialise ==
  \E pol \in ControllerPolicies, imp \in Impairments :
    InitialiseBlackboard(pol, imp)

SpecInitialise == InitBlackboard /\ [][NextInitialise]_vars

\* ------------------------------------------------------------------------
\* The goal nodes at the start of a session, with one sample in every
\* accumulator and a set that has not begun or has had its repetitions.
InitGoalNodes ==
  /\ InitLocals
  /\ InitDriver
  /\ InitAction
  /\ InitEvents
  /\ policy = "core"
  /\ subtree = "goal"
  /\ c_goal_level = PERSON_GOAL
  /\ c_phase = PHASE_START
  /\ c_completed = FALSE
  /\ c_set_count = 0
  /\ c_session_time = 0
  /\ c_exercise_count \in {0, MaxExerciseCount}
  /\ c_performance = GOOD
  /\ c_score = 50
  /\ c_target \in Targets
  /\ session_performance_list = << SLOW >>
  /\ exercise_performance_list = << SLOW >>
  /\ set_performance_list = << SLOW >>
  /\ exercise_score_list = << 50 >>
  /\ set_score_list = << 50 >>
  /\ nd_new_goal = Unset
  /\ nd_phase = PHASE_START
  /\ nd_performance = 0 - 1
  /\ nd_score = NoScore
  /\ nd_target = Unset
  /\ nd_person = "unset"

InitNodes ==
  \/ InitDecision
  \/ InitGoalNodes

NextNodes ==
  \/ (subtree = "decision" /\ GetBehaviourBegin)
  \/ (subtree = "decision" /\ ResolveSilence)
  \/ (subtree = "decision" /\ ResolveResample)
  \/ (subtree = "decision" /\ ResolveCanonical)
  \/ (subtree = "decision" /\ ResolveAdvance)
  \/ (subtree = "decision" /\ GetBehaviourEnd)
  \/ (subtree = "decision" /\ CheckForBehaviour)
  \/ (subtree = "goal" /\ \E g \in NodeGoals : CreateSubgoal(g))
  \/ (subtree = "goal" /\ \E g \in NodeGoals : EndSubgoal(g))
  \/ (subtree = "goal" /\ \E g \in NodeGoals : TimestepCue(g))
  \/ (subtree = "goal" /\ DurationCheck)
  \/ (subtree = "goal" /\ EndSetEvent)

SpecNodes == InitNodes /\ [][NextNodes]_vars

\* ========================================================================
\* Claims about PolicyWrapper
\* ========================================================================

\* C1: whenever get_behaviour returns, the returned behaviour is a member of
\* _get_valid_list(goal_level, performance, phase), whatever the sampler
\* produced on the way.
C1_ReturnedIsValid ==
  pc = "returned" => behaviour \in _get_valid_list(goal_level, performance, phase)

\* A call at the session goal that needed the fallback and has returned.
C1_Witness ==
  /\ pc = "returned"
  /\ goal_level = SESSION_GOAL
  /\ n_sample_observation > 0

\* C2: get_behaviour always terminates: every call that has begun returns,
\* for every sampler, one that answers with an invalid behaviour each time
\* included.
C2_Terminates == (pc = "resolve") ~> (pc = "returned")

\* C4: at the person goal in its end phase get_behaviour returns the end
\* marker and calls neither sample_action nor sample_observation.
C4_PersonEndBypass ==
  (pc # "idle" /\ goal_level = PERSON_GOAL /\ phase = PHASE_END)
    => /\ behaviour = "A_END"
       /\ n_sample_action = 0
       /\ n_sample_observation = 0

\* A returned call at the person goal in its end phase.
C4_Witness ==
  /\ pc = "returned"
  /\ goal_level = PERSON_GOAL
  /\ phase = PHASE_END
  /\ performance = GOOD

\* C5: at the action goal silence is in the valid list for every performance
\* value (the three named ones and any other) and for both phases.
C5_SilenceValidAtAction ==
  (pc # "idle" /\ goal_level = ACTION_GOAL) => "A_SILENCE" \in valid_behaviours

\* A call at the action goal with the initial performance -1, end phase.
C5_Witness ==
  /\ pc = "resolve"
  /\ goal_level = ACTION_GOAL
  /\ performance = 0 - 1
  /\ phase = PHASE_END
  /\ "A_SILENCE" \in valid_behaviours

\* ========================================================================
\* Claims about the decision step
\* ========================================================================
FeedbackGoals == {SESSION_GOAL, EXERCISE_GOAL, SET_GOAL}

C7_CreateSubgoalContract ==
  [][\A g \in GoalLevels :
       CreateSubgoal(g) =>
         IF g < ACTION_GOAL
           THEN status' = "SUCCESS" /\ nd_new_goal' = g + 1
           ELSE status' = "FAIL" /\ nd_new_goal' = nd_new_goal]_vars

\* C8: a successful EndSubgoal on level L deposits L - 1 as the new goal and
\* the start phase on the blackboard and sets the completed flag; it lowers
\* the controller's level by one and gives the controller the end phase
\* exactly when L is the session, the exercise, or the set with a set count
\* of 2, and otherwise gives the controller the start phase and leaves its
\* level alone.
C8_EndSubgoalEffect ==
  [][\A g \in NodeGoals :
       (EndSubgoal(g) /\ status' = "SUCCESS") =>
         /\ nd_new_goal' = g - 1
         /\ nd_phase' = PHASE_START
         /\ c_completed' = TRUE
         /\ IF \/ g = SESSION_GOAL
               \/ g = EXERCISE_GOAL
               \/ (g = SET_GOAL /\ c_set_count = 2)
              THEN /\ c_goal_level' = c_goal_level - 1
                   /\ c_phase' = PHASE_END
              ELSE /\ c_goal_level' = c_goal_level
                   /\ c_phase' = PHASE_START]_vars

\* The second set of an exercise has just been ended with success: the
\* controller is one level up, in the end phase, and the exercise level is
\* the new goal.
C8_Witness ==
  /\ node = "EndSubgoal"
  /\ status = "SUCCESS"
  /\ c_set_count = 2
  /\ nd_new_goal = SET_GOAL - 1
  /\ nd_phase = PHASE_START
  /\ c_phase = PHASE_END
  /\ c_completed

C10_AggregateMeans ==
  [][\A g \in FeedbackGoals :
       LET perfs  == IF g = SESSION_GOAL THEN session_performance_list
                     ELSE IF g = EXERCISE_GOAL THEN exercise_performance_list
                     ELSE set_performance_list
           scores == IF g = EXERCISE_GOAL THEN exercise_score_list
                     ELSE IF g = SET_GOAL THEN set_score_list
                     ELSE << >>
           off    == Len(perfs) * nd_performance' - Sum(perfs)
       IN  (/\ TimestepCue(g)
            /\ c_goal_level = g
            /\ c_phase = PHASE_END
            /\ perfs # << >>) =>
             /\ 2 * (IF off < 0 THEN 0 - off ELSE off) <= Len(perfs)
             /\ scores # << >> =>
                  /\ status' = "SUCCESS"
                  /\ nd_score'[2] > 0
                  /\ nd_score'[1] * Len(scores) = Sum(scores) * nd_score'[2]
      ]_vars

\* The feedback on a set whose two repetitions were rated fast and slow and
\* whose one score is 0.70: the mean 1.5 is reported as 2.
C10_Witness ==
  /\ node = "TimestepCue"
  /\ status = "SUCCESS"
  /\ c_goal_level = SET_GOAL
  /\ c_phase = PHASE_END
  /\ set_performance_list = << FAST, SLOW >>
  /\ set_score_list = << 70 >>
  /\ nd_performance = 2
  /\ nd_score = << 70, 1 >>
  /\ nd_phase = PHASE_END

\* ========================================================================
\* Claims about the end of a set and of the session
\* ========================================================================

C12_DurationCheckPure ==
  [][DurationCheck =>
       /\ status' = IF c_session_time - nd_start_time >= nd_session_duration
                      THEN "SUCCESS" ELSE "FAIL"
       /\ UNCHANGED << bvars, mvars >>]_vars

\* The session has lasted exactly as long as asked for, and DurationCheck
\* has answered that the limit is reached.
C12_Witness ==
  /\ node = "DurationCheck"
  /\ status = "SUCCESS"
  /\ nd_session_duration > 0
  /\ c_session_time - nd_start_time = nd_session_duration

\* ========================================================================
\* Claims about the valid lists
\* ========================================================================

\* C13: the valid list of the person goal is exactly the pre-instruction and
\* the pre-instruction with first name in the start phase and exactly the end
\* marker in the end phase, whatever the performance.
C13_PersonValidList ==
  (pc # "idle" /\ goal_level = PERSON_GOAL) =>
    valid_behaviours =
      IF phase = PHASE_START
        THEN {"A_PREINSTRUCTION", "A_PREINSTRUCTION_FIRSTNAME"}
        ELSE {"A_END"}

\* A call for the person goal in its start phase with a slow performance has
\* returned the pre-instruction with first name.
C13_Witness ==
  /\ pc = "returned"
  /\ goal_level = PERSON_GOAL
  /\ phase = PHASE_START
  /\ performance = SLOW
  /\ behaviour = "A_PREINSTRUCTION_FIRSTNAME"
  /\ valid_behaviours = {"A_PREINSTRUCTION", "A_PREINSTRUCTION_FIRSTNAME"}

\* C14: at the session, exercise and set goal the valid list contains the
\* same base set of post-instruction and questioning behaviours in every
\* phase and for every performance, and the lists of the three levels are
\* the same except for the end marker, which is in the list only for the
\* session goal in the end phase.
C14_FeedbackListsAgree ==
  (pc # "idle" /\ goal_level \in FeedbackGoals) =>
    /\ FeedbackBase \subseteq valid_behaviours
    /\ valid_behaviours \ {"A_END"}
         = _get_valid_list(SET_GOAL, performance, phase)
    /\ valid_behaviours \ {"A_END"}
         = _get_valid_list(EXERCISE_GOAL, performance, phase)
    /\ ("A_END" \in valid_behaviours)
         <=> (goal_level = SESSION_GOAL /\ phase = PHASE_END)

\* A call for the session goal in its end phase has returned the end marker.
C14_Witness ==
  /\ pc = "returned"
  /\ goal_level = SESSION_GOAL
  /\ phase = PHASE_END
  /\ behaviour = "A_END"
  /\ "A_END" \in valid_behaviours

C18_PersonEndSucceeds ==
  [][EndSubgoal(PERSON_GOAL) =>
       /\ nd_new_goal' = 0 - 1
       /\ c_completed' = TRUE
       /\ status' = "SUCCESS"]_vars

\* C19: at a goal other than the action goal, when get_behaviour enters the
\* canonicalization or state-advance branch for the first time in a call
\* (every turn of the loop so far was a resample and the latent state was
\* never advanced), the sampler has been asked again at most 10 times after
\* the initial sample.
C19_AtMostTenResamples ==
  [][((ResolveCanonical \/ ResolveAdvance)
        /\ n_sample_observation = 0
        /\ count = n_sample_action - 1) =>
       n_sample_action - 1 <= 10]_vars

\* C20: whenever get_behaviour, at a goal other than the action goal, replaces
\* a compound by its base behaviour from the canonicalization table, the base
\* behaviour is in the valid list of the call, so the loop is left next.
C20_CanonicalIsValid ==
  [][ResolveCanonical =>
       /\ behaviour' \in _get_valid_list(goal_level, performance, phase)
       /\ behaviour' \in valid_behaviours']_vars

\* C21: in a call of get_behaviour at the action goal the sampler's
\* sample_action has been called exactly once and its sample_observation
\* never, at every point of the loop and at the return; a turn of the loop
\* there replaces the invalid sample by silence, calls nothing, and leaves a
\* behaviour that is in the valid list, so that no second turn follows.
C21_ActionOneSample ==
  [][/\ (pc' # "idle" /\ goal_level' = ACTION_GOAL) =>
          /\ n_sample_action' = 1
          /\ n_sample_observation' = 0
     /\ (pc = "resolve" /\ pc' = "resolve" /\ goal_level = ACTION_GOAL) =>
          /\ behaviour \notin valid_behaviours
          /\ behaviour' = "A_SILENCE"
          /\ behaviour' \in valid_behaviours'
          /\ state' = state]_vars

\* A call at the action goal has returned silence after exactly one sample,
\* for a user whose last action was good.
C21_Witness ==
  /\ pc = "returned"
  /\ goal_level = ACTION_GOAL
  /\ performance = GOOD
  /\ behaviour = "A_SILENCE"
  /\ n_sample_action = 1
  /\ n_sample_observation = 0

\* C22: at a goal other than the action goal, with the counter above 10, a
\* turn of the loop on an invalid manual-manipulation compound replaces it by
\* its base behaviour of the table, calls neither sample_action nor
\* sample_observation, leaves the latent state as it was and moves the
\* counter on by one instead of resetting it.
C22_CanonicalStep ==
  [][(/\ pc = "resolve" /\ pc' = "resolve"
      /\ goal_level # ACTION_GOAL
      /\ count > 10
      /\ behaviour \notin valid_behaviours
      /\ behaviour \in DOMAIN CanonicalTable) =>
       /\ behaviour' = CanonicalTable[behaviour]
       /\ n_sample_action' = n_sample_action
       /\ n_sample_observation' = n_sample_observation
       /\ state' = state
       /\ count' = count + 1]_vars

\* A call at the person goal has just turned a compound into the questioning
\* after eleven resamples: the counter stands at 12, twelve samples were
\* taken and the latent state was never advanced.
C22_Witness ==
  /\ pc = "resolve"
  /\ goal_level = PERSON_GOAL
  /\ behaviour = "A_QUESTIONING"
  /\ count = 12
  /\ n_sample_action = 12
  /\ n_sample_observation = 0

\* C23: at a goal other than the action goal, with the counter above 10, a
\* turn of the loop on an invalid behaviour outside the table calls
\* sample_observation once and sample_action once, and leaves the counter
\* where it stood when the loop began (at 0), so that as many resamples are
\* allowed before the next fallback as were allowed before the first.
C23_AdvanceResetsBudget ==
  [][(/\ pc = "resolve" /\ pc' = "resolve"
      /\ goal_level # ACTION_GOAL
      /\ count > 10
      /\ behaviour \notin valid_behaviours
      /\ behaviour \notin DOMAIN CanonicalTable) =>
       /\ n_sample_observation' = Bump(n_sample_observation, ObsCap)
       /\ n_sample_action' = Bump(n_sample_action, CallCap)
       /\ (RetryLimit + 1) - count' = (RetryLimit + 1) - 0]_vars

C25_FamiliesByPerformance ==
  LET praise == { "A_PRAISE", "A_PRAISE_FIRSTNAME", "A_POSITIVEMODELING_PRAISE",
                  "A_CONCURRENTINSTRUCTIONPOSITIVE_PRAISE",
                  "A_PREINSTRUCTION_PRAISE" }
      scold  == { "A_SCOLD", "A_SCOLD_FIRSTNAME", "A_SCOLD_POSITIVEMODELING",
                  "A_CONSOLE", "A_CONSOLE_FIRSTNAME" }
  IN (pc # "idle" /\ goal_level # PERSON_GOAL) =>
       /\ (valid_behaviours \cap praise # {}) => performance = GOOD
       /\ (valid_behaviours \cap scold # {}) =>
            (performance = SLOW \/ performance = FAST)
       /\ (valid_behaviours \cap praise = {}) \/ (valid_behaviours \cap scold = {})
       /\ (performance \notin {GOOD, SLOW, FAST}) =>
            valid_behaviours \cap (praise \cup scold) = {}

\* A call for the set goal with the initial performance -1 has returned, and
\* its valid list holds the questioning but neither the praise nor the scold.
C25_Witness ==
  /\ pc = "returned"
  /\ goal_level = SET_GOAL
  /\ performance = 0 - 1
  /\ "A_QUESTIONING" \in valid_behaviours
  /\ "A_PRAISE" \notin valid_behaviours
  /\ "A_SCOLD" \notin valid_behaviours

\* C26: in a call for the session, exercise or set goal the pre-instruction,
\* its compounds with questioning, first name, positive and negative
\* modeling and the positive modeling followed by pre-instruction are all in
\* the valid list when the phase is the start phase, and none of them (nor
\* any other behaviour of the pre-instruction category) is in it when the
\* phase is the end phase, whatever the performance.
C26_PreInstructionByPhase ==
  (pc # "idle" /\ goal_level \in {SESSION_GOAL, EXERCISE_GOAL, SET_GOAL}) =>
    IF phase = PHASE_START
      THEN { "A_PREINSTRUCTION", "A_PREINSTRUCTION_QUESTIONING",
             "A_PREINSTRUCTION_FIRSTNAME", "A_PREINSTRUCTION_POSITIVEMODELING",
             "A_PREINSTRUCTION_NEGATIVEMODELING",
             "A_POSITIVEMODELING_PREINSTRUCTION" } \subseteq valid_behaviours
      ELSE valid_behaviours \cap
             { "A_PREINSTRUCTION", "A_PREINSTRUCTION_QUESTIONING",
               "A_PREINSTRUCTION_FIRSTNAME", "A_PREINSTRUCTION_POSITIVEMODELING",
               "A_PREINSTRUCTION_NEGATIVEMODELING",
               "A_POSITIVEMODELING_PREINSTRUCTION", "A_PREINSTRUCTION_PRAISE",
               "A_PREINSTRUCTION_MANUALMANIPULATION",
               "A_MANUALMANIPULATION_PREINSTRUCTION" } = {}

\* A call for the exercise goal in its end phase, after a fast action, is in
\* its loop with the pre-instruction as the sampled behaviour, which its
\* valid list does not hold.
C26_Witness ==
  /\ pc = "resolve"
  /\ goal_level = EXERCISE_GOAL
  /\ phase = PHASE_END
  /\ performance = FAST
  /\ behaviour = "A_PREINSTRUCTION"
  /\ "A_PREINSTRUCTION" \notin valid_behaviours
  /\ "A_CONSOLE" \in valid_behaviours

C28_AggregateClearsLists ==
  [][\A g \in {SESSION_GOAL, EXERCISE_GOAL, SET_GOAL} :
       TimestepCue(g) =>
         /\ (status' = "SUCCESS" /\ nd_phase' = PHASE_END) =>
              CASE g = SESSION_GOAL -> session_performance_list' = << >>
                [] g = EXERCISE_GOAL -> /\ exercise_performance_list' = << >>
                                        /\ exercise_score_list' = << >>
                [] g = SET_GOAL -> /\ set_performance_list' = << >>
                                   /\ set_score_list' = << >>
         /\ (status' = "ACTIVE" \/ (status' = "SUCCESS" /\ nd_phase' = PHASE_START)) =>
              UNCHANGED lvars]_vars

\* ========================================================================
\* Claims about the controller's counters
\* ========================================================================

\* C29: every successful EndSubgoal for the exercise level raises
\* controller.session_time by exactly one, and no other step of any node
\* (CreateSubgoal, EndSubgoal for another level, TimestepCue, EndSetEvent,
\* DurationCheck, GetBehaviour, CheckForBehaviour) changes it; it never
\* decreases.
C29_SessionTimeCounts ==
  [][/\ (EndSubgoal(EXERCISE_GOAL) /\ status' = "SUCCESS") =>
          c_session_time' = c_session_time + 1
     /\ (c_session_time' # c_session_time) =>
          /\ EndSubgoal(EXERCISE_GOAL)
          /\ status' = "SUCCESS"
     /\ c_session_time' >= c_session_time]_vars

\* The second exercise of a session has just been ended: the session time
\* stands at 2 and the session level is the new goal.
C29_Witness ==
  /\ node = "EndSubgoal"
  /\ status = "SUCCESS"
  /\ nd_new_goal = SESSION_GOAL
  /\ c_session_time = 2

\* C30: whenever EndSubgoal ends a set that is the second, the fourth or any
\* later even-numbered set EndSetEvent has counted in the session (the final
\* set of an exercise of two sets), it takes the feedback branch: the
\* controller's level drops by one and its phase becomes the end phase.
C30_FinalSetOfEveryExercise ==
  [][(EndSubgoal(SET_GOAL) /\ c_set_count > 0 /\ c_set_count % 2 = 0) =>
       /\ c_goal_level' = c_goal_level - 1
       /\ c_phase' = PHASE_END]_vars

\* ========================================================================
\* Claims about the cues and the flags
\* ========================================================================

\* C31 as stated: a TimestepCue that returns ACTIVE leaves the controller's
\* goal level, phase and performance as they were.
C31_WaitingChangesNothing ==
  [][\A g \in NodeGoals :
       (TimestepCue(g) /\ status' = "ACTIVE") =>
         /\ c_goal_level' = c_goal_level
         /\ c_phase' = c_phase
         /\ c_performance' = c_performance]_vars

\* C31 as amended: a TimestepCue for the person, exercise, set or action
\* level that returns ACTIVE leaves the controller's goal level, phase and
\* performance as they were, so that its level still differs from the level
\* asked for and the same cue would wait again; a TimestepCue for the session
\* level that returns ACTIVE leaves the phase alone but moves the controller
\* to the session level, so that the same cue no longer waits, and leaves the
\* performance as it was or replaces it by the one stored in the
\* participant's file.
C31_WaitingExceptSession ==
  [][\A g \in NodeGoals :
       (TimestepCue(g) /\ status' = "ACTIVE") =>
         /\ c_phase' = c_phase
         /\ IF g = SESSION_GOAL
              THEN /\ c_goal_level # SESSION_GOAL
                   /\ c_goal_level' = SESSION_GOAL
                   /\ c_performance' \in {c_performance} \cup ListPerformances
              ELSE /\ c_goal_level' = c_goal_level
                   /\ c_performance' = c_performance
                   /\ c_goal_level' # (IF g = 0 - 1 THEN PERSON_GOAL ELSE g)]_vars

\* A cue for the session level has just waited: the controller is at the
\* session level now and holds the stored performance instead of its own.
C31_Witness ==
  /\ node = "TimestepCue"
  /\ status = "ACTIVE"
  /\ c_goal_level = SESSION_GOAL
  /\ c_performance = SLOW

\* C32: a TimestepCue whose goal matches the controller's level changes that
\* level in two cases only: for the exercise level in the start phase and for
\* the action level, and then to the set level, the action cue putting the
\* end phase on the blackboard; matching cues for the person, the session,
\* the exercise in its end phase and the set leave the level as it was, and
\* the matching cue for the set in its start phase sets the repetition count
\* to 0.
C32_MatchingCueMoves ==
  [][\A g \in {0 - 1} \cup SESSION_GOAL..ACTION_GOAL :
       (TimestepCue(g) /\ c_goal_level = (IF g = 0 - 1 THEN PERSON_GOAL ELSE g)) =>
         /\ IF (g = EXERCISE_GOAL /\ c_phase = PHASE_START) \/ g = ACTION_GOAL
              THEN c_goal_level' = SET_GOAL
              ELSE c_goal_level' = c_goal_level
         /\ (g = ACTION_GOAL) => (status' = "SUCCESS" /\ nd_phase' = PHASE_END)
         /\ (g = SET_GOAL /\ c_phase = PHASE_START) =>
              (status' = "SUCCESS" /\ c_exercise_count' = 0)]_vars

\* The cue for the exercise level has matched in the start phase: the
\* controller is at the set level, a repetition still counted.
C32_Witness ==
  /\ node = "TimestepCue"
  /\ status = "SUCCESS"
  /\ c_goal_level = SET_GOAL
  /\ nd_phase = PHASE_START
  /\ nd_performance = FAST
  /\ c_exercise_count = 1

C34_FirstValidReturned ==
  [][/\ (WrapperCall /\ ~(goal_level' = PERSON_GOAL /\ phase' = PHASE_END)
                     /\ behaviour' \in valid_behaviours') =>
          (n_sample_action' = 1 /\ n_sample_observation' = 0 /\ count' = 0)
     /\ (pc = "resolve" /\ behaviour \in valid_behaviours) =>
          /\ pc' = "returned"
          /\ behaviour' = behaviour
          /\ n_sample_action' = n_sample_action
          /\ n_sample_observation' = n_sample_observation
          /\ state' = state]_vars

\* A call for the session goal has returned its first sample.
C34_Witness ==
  /\ pc = "returned"
  /\ goal_level = SESSION_GOAL
  /\ count = 0
  /\ n_sample_action = 1
  /\ n_sample_observation = 0
  /\ behaviour \in valid_behaviours

\* C35: the valid list a call works with is never empty, whatever the goal
\* level, the phase and the performance, a performance that is neither
\* good, fast nor slow included.
C35_ValidListNonEmpty ==
  (pc # "idle") =>
    /\ valid_behaviours # {}
    /\ \A perf \in Performances : _get_valid_list(goal_level, perf, phase) # {}

\* A call for the end of a set with a performance that is no rating: the
\* list holds what every feedback level is offered and nothing more.
C35_Witness ==
  /\ pc = "resolve"
  /\ goal_level = SET_GOAL
  /\ phase = PHASE_END
  /\ performance = MaxPerformance
  /\ performance \notin {GOOD, FAST, SLOW}
  /\ valid_behaviours = FeedbackBase

\* C36: every TimestepCue leaves the completed flag false, and a step that
\* sets the flag is a successful EndSubgoal or a successful EndSetEvent.
C36_CompletedBySuccessOnly ==
  [][/\ \A g \in NodeGoals : TimestepCue(g) => (c_completed' = FALSE)
     /\ (~c_completed /\ c_completed') =>
          /\ node' \in {"EndSubgoal", "EndSetEvent"}
          /\ status' = "SUCCESS"]_vars

\* ------------------------------------------------------------------------
\* Claims about the blackboard and the actions
\* ------------------------------------------------------------------------
\* C37: InitialiseBlackboard deposits a belief of length 12 with a single 1:
\* at controller.policy when that is in 0..11 and, when it is -1, at index 3
\* for an impairment of 4 or more and at index 8 otherwise; it deposits as
\* state the table value of that index, the start phase and the
\* performance -1.
C37_OneHotBeliefAndStart ==
  [][\A pol \in (0 - 1)..(BeliefLength - 1), imp \in Impairments :
       InitialiseBlackboard(pol, imp) =>
         LET hot == IF pol = 0 - 1 THEN (IF imp >= 4 THEN 3 ELSE 8) ELSE pol
             table == << 0, 45, 90, 135, 180, 225, 270, 323, 376, 429, 482,
                         535 >>
         IN /\ Len(nd_belief') = 12
            /\ \A i \in 1..12 : nd_belief'[i] = (IF i = hot + 1 THEN 1 ELSE 0)
            /\ nd_state' = table[hot + 1]
            /\ nd_phase' = PHASE_START
            /\ nd_performance' = 0 - 1]_vars

\* The blackboard has been initialised over a performance left by an
\* earlier node: the belief is at index 3, the state is 135.
C37_Witness ==
  /\ node = "InitialiseBlackboard"
  /\ nd_belief # << >>
  /\ nd_belief[4] = 1
  /\ nd_state = 135
  /\ nd_performance = 0 - 1

\* C38: FormatAction returns FAIL exactly when the behaviour is silence, and
\* then creates no action, and otherwise creates one; the given_score
\* counter changes only by one and only when the action created carries a
\* score at the person, session or exercise level; and from 0 it never
\* exceeds 2.
C38_FormatActionAndGivenScore ==
  [][/\ \A g \in NodeGoals :
          FormatAction(g) =>
            /\ (status' = "FAIL") <=> (nd_behaviour = "A_SILENCE")
            /\ (nd_behaviour = "A_SILENCE") => (nd_action' = nd_action)
            /\ (nd_behaviour # "A_SILENCE") =>
                 (status' = "SUCCESS" /\ Len(nd_action') = 1)
            /\ (c_given_score' # c_given_score) =>
                 /\ c_given_score' = c_given_score + 1
                 /\ Len(nd_action') = 1
                 /\ nd_action'[1].scored
                 /\ g \in {PERSON_GOAL, SESSION_GOAL, EXERCISE_GOAL}
     /\ (c_given_score' # c_given_score) => (node' = "FormatAction")
     /\ c_given_score' \in 0..2]_vars

\* Two scores have been given and a further action has been created
\* without one.
C38_Witness ==
  /\ node = "FormatAction"
  /\ status = "SUCCESS"
  /\ c_given_score = 2
  /\ nd_action # << >>
  /\ ~nd_action[1].scored
  /\ nd_score # NoScore

\* ------------------------------------------------------------------------
\* Claims about the canonicalization table
\* ------------------------------------------------------------------------
\* C39: a canonicalization never yields a key of the table, and when the
\* behaviour it yields is still not in the valid list the next step of the
\* loop is the one that moves the state and samples there, not another
\* canonicalization.
C39_CanonicalThenAdvance ==
  [][/\ ResolveCanonical =>
          /\ behaviour' \notin DOMAIN CanonicalTable
          /\ pc' = "resolve"
          /\ count' > RetryLimit + 1
     /\ (pc = "resolve" /\ count > RetryLimit + 1
                        /\ behaviour \notin valid_behaviours) =>
          /\ ResolveAdvance
          /\ ~ResolveCanonical]_vars

\* A compound has just been canonicalized and its base behaviour is not in
\* the valid list either.
C39_Witness ==
  /\ pc = "resolve"
  /\ count = RetryLimit + 2
  /\ behaviour \in {CanonicalTable[k] : k \in DOMAIN CanonicalTable}
  /\ behaviour \notin valid_behaviours

====
